---------------------------- MODULE Spec2Model ----------------------------
(***************************************************************************)
(* TFTP server dispatcher (src/tftp/TFTPServer.py, class TftpServer) as a  *)
(* state machine.  The listen() loop runs on a worker thread               *)
(* (src/TFTP_GUI_Server.py:103) while stop() is called from the GUI thread *)
(* (src/TFTP_GUI_Server.py:114), so the loop is cut into steps at the      *)
(* places where it reads the two shutdown flags; stop() may run between    *)
(* any two steps.                                                          *)
(*                                                                         *)
(* The session class TftpContextServer (tftp/TftpContexts.py) is imported  *)
(* by the server but its source is not part of src/; Start and Cycle below *)
(* follow sections 4.2, 4.4 and 7 of the specification instead.            *)
(***************************************************************************)
EXTENDS Integers, Sequences, FiniteSets, TLC

(* ------------------------------ bounds -------------------------------- *)

\* Sessions created over one behaviour (session ids are 1..MaxSessions).
MaxSessions == 2

\* Duplicate packets a peer sends to one session.
MaxDup == 1

\* Full-size DATA blocks a writing peer sends before its short final block.
MaxFull == 1

\* Servers the window starts over one behaviour.
MaxServers == 3

(* --------------------------- program constants ------------------------ *)

\* listen(..., retries=DEF_TIMEOUT_RETRIES): 3 by default.
retries == 3

\* Block numbers are 16-bit.
BlockModulus == 65536

\* Peer endpoints (address, port) that send datagrams to the server.
Endpoints == { <<"10.0.0.1", 2001>>, <<"10.0.0.2", 2002>> }

\* Files below the served root, with their length in full blocks; every
\* file ends with one short block ("exact.bin" with a zero-length one).
RootFiles == [f \in {"hello.txt", "exact.bin"} |->
                 IF f = "hello.txt" THEN 0 ELSE 1]

\* File names a request can carry: two present, one absent, one that
\* leaves the root.
FileNames == {"hello.txt", "exact.bin", "absent.txt", "../passwd"}

\* self.root = os.path.abspath(tftproot), as its components.
RootPath == <<"srv", "tftp">>

\* File names handle_write_request can be given: those of a request and an
\* absolute one.
WriteNames == FileNames \cup {"/etc/shadow"}

IsAbs(f) == f = "/etc/shadow"

\* The components of a file name between its slashes.
Components(f) ==
    CASE f = "../passwd" -> <<"..", "passwd">>
      [] f = "/etc/shadow" -> <<"etc", "shadow">>
      [] OTHER -> <<f>>

\* os.path.join(root, filename): an absolute second part replaces the
\* first; no component is resolved.
Join(root, f) == IF IsAbs(f) THEN Components(f) ELSE root \o Components(f)

\* The canonical form of a path: ".." takes the component before it away
\* (the one above "/" is "/").
RECURSIVE Resolve(_, _)
Resolve(done, rest) ==
    IF rest = <<>> THEN done
    ELSE IF Head(rest) = ".."
    THEN Resolve(IF done = <<>> THEN <<>>
                 ELSE SubSeq(done, 1, Len(done) - 1), Tail(rest))
    ELSE Resolve(Append(done, Head(rest)), Tail(rest))

Canonical(p) == Resolve(<<>>, p)

HasPrefix(p, r) == Len(p) >= Len(r) /\ SubSeq(p, 1, Len(r)) = r

\* A request's file name leaves the root: canonicalize root/F and test
\* that the root is its prefix.
Escapes(f) == ~HasPrefix(Canonical(Join(RootPath, f)), RootPath)

RequestOps == {"RRQ", "WRQ"}
OtherOps == {"DATA", "ACK", "ERROR", "OACK", "BAD"}

NoDgram == [src |-> <<"", 0>>, op |-> "NONE", file |-> "-", blk |-> 0,
            short |-> FALSE]

\* Datagrams a peer can send to the listening socket.
ListenDgrams ==
    {[src |-> e, op |-> o, file |-> f, blk |-> 0, short |-> FALSE] :
        e \in Endpoints, o \in RequestOps, f \in FileNames}
    \cup
    {[src |-> e, op |-> o, file |-> "-", blk |-> 0, short |-> FALSE] :
        e \in Endpoints, o \in OtherOps}

\* NextBlock with a fault: the block after 65535 is 65536.
NextBlockNoWrap(b) == b + 1

NextBlock(b) == (b + 1) % BlockModulus
PrevBlock(b) == (b + BlockModulus - 1) % BlockModulus

VARIABLES
    pc,                    \* position of the listen() thread
    sock,                  \* self.sock: "none", "open" or "closed"
    is_running,            \* self.is_running (threading.Event)
    shutdown_gracefully,   \* self.shutdown_gracefully
    shutdown_immediately,  \* self.shutdown_immediately
    sessions,              \* self.sessions: key -> session
    pending,               \* whether a datagram waits on a socket (0: listening)
    readyinput,            \* rest of select's ready list in this iteration
    buffer,                \* datagram read at line 108 and not yet handled
    deletion_list,         \* deletion_list of this iteration
    ended,                 \* session id -> number of end() calls on it
    nextId,                \* id of the next session to be created
    sent,                  \* packets sent by the last start()/cycle() call
    streak,                \* select timeouts in a row, up to retries + 1
    rcvd,                  \* datagram read by the last cycle() call
    last,                  \* history: the latest step of the listen() thread
    lastEnded,             \* history: <<id, state>> of the sessions it ended
    ctor,                  \* the latest TftpServer(tftproot) call
    opened,                \* paths opened with mode 'wb' by the server
    clients,               \* TftpClient objects: name -> its fields
    dicts,                 \* the dict objects that hold client options
    lastNew,               \* the latest TftpClient(...) call
    xfer,                  \* the latest download()/upload() call
    writer,                \* the client whose options were last written
    lastSize,              \* the latest get_file_size() call
    gui,                   \* the window: self.server and the status label
    loops                  \* the listen() threads the window has started

\* The dispatcher's variables.
srvVars == <<pc, sock, is_running, shutdown_gracefully,
             shutdown_immediately, sessions, pending, readyinput, buffer,
             deletion_list, ended, nextId, sent, streak, rcvd, last,
             lastEnded>>

\* The variables of the server's other operations, and of the client.
ctorVars == <<ctor, opened>>
cliVars == <<clients, dicts, lastNew, xfer, writer, lastSize>>

\* The variables of the graphical shell.
guiVars == <<gui, loops>>

vars == <<srvVars, ctorVars, cliVars, guiVars>>

SessionIds == 1..MaxSessions
LISTEN == 0

LoopPcs == {"top", "top2", "select", "dispatch", "accept"}
InLoop == pc \in LoopPcs

\* key = "%s:%s" % (raddress, rport): the text "address:port".  A dotted
\* address holds no colon, so the text and the pair determine each other;
\* the pair stands for the text.
SessionKey(raddress, rport) == <<raddress, rport>>

Keys == {SessionKey(e[1], e[2]) : e \in Endpoints}

KeyOfSock(i) == CHOOSE k \in DOMAIN sessions : sessions[k].id = i

LiveIds == {sessions[k].id : k \in DOMAIN sessions}

Remove(map, ks) == [k \in DOMAIN map \ ks |-> map[k]]

SeqToSet(s) == {s[i] : i \in 1..Len(s)}

\* self.server = None in the window.
NoServer == 0

\* No call of the kind was made yet.
NoCall == [result |-> "none"]

\* The dict object made once by `options={}' in the signature of
\* TftpClient.__init__ (line 22); other dicts are named after the client
\* whose caller made them.
DEFAULT == "default"

\* A dict with no key: option name -> value, over no name.
EmptyDict == <<>>

\* The dispatcher of a constructed server on which listen() was not called.
SrvInit ==
    /\ pc = "idle"
    /\ sock = "none"
    /\ is_running = FALSE
    /\ shutdown_gracefully = FALSE
    /\ shutdown_immediately = FALSE
    /\ sessions = <<>>
    /\ pending = [i \in {LISTEN} \cup SessionIds |-> FALSE]
    /\ readyinput = <<>>
    /\ buffer = NoDgram
    /\ deletion_list = <<>>
    /\ ended = [i \in SessionIds |-> 0]
    /\ nextId = 1
    /\ sent = <<>>
    /\ streak = 0
    /\ rcvd = NoDgram
    /\ last = "none"
    /\ lastEnded = {}

\* No call of the other server operations was made.
CtorInit ==
    /\ ctor = NoCall
    /\ opened = {}

\* No client was constructed.
CliInit ==
    /\ clients = <<>>
    /\ dicts = [r \in {DEFAULT} |-> EmptyDict]
    /\ lastNew = NoCall
    /\ xfer = NoCall
    /\ writer = "none"
    /\ lastSize = NoCall

\* Lines 40 and 53: the window as constructed, with no server and the
\* label "Server Status: Stopped".
GuiInit ==
    /\ gui = [server |-> NoServer, label |-> "Stopped"]
    /\ loops = <<>>

Init == SrvInit /\ CtorInit /\ CliInit /\ GuiInit


(* ---------------- the session (TftpContextServer) --------------------- *)

Pkt(to, op, arg) == [to |-> to, op |-> op, arg |-> arg]

\* TftpContextServer(raddress, rport, timeout, root, ..., retries=retries)
\* `full' is the number of full blocks of the file a reading session
\* serves; `shorts' counts the short DATA blocks the session has sent or
\* written.
NewSession(id, peer, d) ==
    [id |-> id, peer |-> peer, first |-> d.op, role |-> "none",
     state |-> "INIT", blk |-> 0, left |-> 0, lastShort |-> FALSE,
     wrote |-> 0, retry_count |-> 0, dupcount |-> 0, full |-> 0,
     shorts |-> 0]

Failed(s) == [s EXCEPT !.state = "FAILED"]

\* A session ends in one of these; DONE is `state is None' in the source.
Terminal(s) == s.state \in {"DONE", "FAILED"}

\* session.start(buffer): the first packet of a transfer.  The result says
\* whether TftpException was raised, the session afterwards, and the
\* packets sent.
Start(s, d) ==
    IF d.op \notin RequestOps
    THEN [raised |-> TRUE, sess |-> Failed(s),
          out |-> <<Pkt(s.peer, "ERROR", 4)>>]
    ELSE IF Escapes(d.file)
    THEN [raised |-> TRUE, sess |-> Failed(s),
          out |-> <<Pkt(s.peer, "ERROR", 2)>>]
    ELSE IF d.op = "RRQ"
    THEN IF d.file \notin DOMAIN RootFiles
         THEN [raised |-> TRUE, sess |-> Failed(s),
               out |-> <<Pkt(s.peer, "ERROR", 1)>>]
         ELSE [raised |-> FALSE,
               sess |-> [s EXCEPT !.role = "read",
                                  !.state = "WAITING_ACK",
                                  !.blk = 1,
                                  !.left = IF RootFiles[d.file] > 0
                                           THEN RootFiles[d.file] - 1
                                           ELSE 0,
                                  !.lastShort = (RootFiles[d.file] = 0),
                                  !.full = RootFiles[d.file],
                                  !.shorts = IF RootFiles[d.file] = 0
                                             THEN 1 ELSE 0],
               out |-> <<Pkt(s.peer, "DATA", 1)>>]
    ELSE [raised |-> FALSE,
          sess |-> [s EXCEPT !.role = "write",
                             !.state = "RECEIVING_DATA",
                             !.blk = 0],
          out |-> <<Pkt(s.peer, "ACK", 0)>>]

\* A reading session (server sends DATA) gets a packet from its peer.
CycleRead(s, d) ==
    IF d.op = "ACK" /\ d.blk = s.blk
    THEN IF s.lastShort
         THEN [raised |-> FALSE, sess |-> [s EXCEPT !.state = "DONE"],
               out |-> <<>>]
         ELSE [raised |-> FALSE,
               sess |-> [s EXCEPT !.blk = NextBlock(s.blk),
                                  !.left = IF s.left > 0 THEN s.left - 1
                                           ELSE 0,
                                  !.lastShort = (s.left = 0),
                                  !.shorts = IF s.left = 0 THEN @ + 1
                                             ELSE @,
                                  !.retry_count = 0],
               out |-> <<Pkt(s.peer, "DATA", NextBlock(s.blk))>>]
    ELSE IF d.op = "ACK" /\ d.blk = PrevBlock(s.blk)
    THEN [raised |-> FALSE, sess |-> [s EXCEPT !.dupcount = @ + 1],
          out |-> <<>>]
    ELSE IF d.op = "ERROR"
    THEN [raised |-> TRUE, sess |-> Failed(s), out |-> <<>>]
    ELSE [raised |-> TRUE, sess |-> Failed(s),
          out |-> <<Pkt(s.peer, "ERROR", 4)>>]

\* A writing session (server receives DATA) gets a packet from its peer.
CycleWrite(s, d) ==
    IF d.op = "DATA" /\ d.blk = NextBlock(s.blk)
    THEN [raised |-> FALSE,
          sess |-> [s EXCEPT !.blk = d.blk,
                             !.wrote = @ + 1,
                             !.shorts = IF d.short THEN @ + 1 ELSE @,
                             !.retry_count = 0,
                             !.state = IF d.short THEN "DONE" ELSE @],
          out |-> <<Pkt(s.peer, "ACK", d.blk)>>]
    ELSE IF d.op = "DATA" /\ d.blk = s.blk
    THEN [raised |-> FALSE, sess |-> [s EXCEPT !.dupcount = @ + 1],
          out |-> <<Pkt(s.peer, "ACK", s.blk)>>]
    ELSE IF d.op = "ERROR"
    THEN [raised |-> TRUE, sess |-> Failed(s), out |-> <<>>]
    ELSE [raised |-> TRUE, sess |-> Failed(s),
          out |-> <<Pkt(s.peer, "ERROR", 4)>>]

\* session.cycle(): read one datagram from the session's socket.  One from
\* another endpoint than the peer is answered with ERROR(5) and dropped.
Cycle(s, d) ==
    IF d.src # s.peer
    THEN [raised |-> FALSE, sess |-> s,
          out |-> <<Pkt(d.src, "ERROR", 5)>>]
    ELSE IF s.role = "read" THEN CycleRead(s, d)
    ELSE CycleWrite(s, d)

Dgram(src, op, blk, short) ==
    [src |-> src, op |-> op, file |-> "-", blk |-> blk, short |-> short]

\* Datagrams the peer of session s can send to its socket: the expected
\* packet, a duplicate of the previous one, one out of sequence, one of the
\* wrong kind, an ERROR and a malformed one.
PeerDgrams(s) ==
    LET dups == IF s.dupcount < MaxDup THEN {PrevBlock(s.blk)} ELSE {}
        dupd == IF s.dupcount < MaxDup THEN {s.blk} ELSE {}
    IN IF s.role = "read"
       THEN {Dgram(s.peer, "ACK", b, FALSE) :
                b \in {s.blk, NextBlock(s.blk)} \cup dups}
            \cup {Dgram(s.peer, o, 0, FALSE) : o \in {"DATA", "ERROR", "BAD"}}
       ELSE {Dgram(s.peer, "DATA", NextBlock(s.blk), sh) :
                sh \in IF s.wrote < MaxFull THEN BOOLEAN ELSE {TRUE}}
            \cup {Dgram(s.peer, "DATA", b, TRUE) :
                     b \in {NextBlock(NextBlock(s.blk))} \cup dupd}
            \cup {Dgram(s.peer, o, 0, FALSE) : o \in {"ACK", "ERROR", "BAD"}}

\* Datagrams another endpoint can send to the socket of session s: the
\* packet the session waits for, and an ERROR.
StrayDgrams(s) ==
    {Dgram(e, IF s.role = "read" THEN "ACK" ELSE "DATA",
           IF s.role = "read" THEN s.blk ELSE NextBlock(s.blk), TRUE) :
        e \in Endpoints \ {s.peer}}
    \cup {Dgram(e, "ERROR", 0, FALSE) : e \in Endpoints \ {s.peer}}

SessionDgrams(s) == PeerDgrams(s) \cup StrayDgrams(s)

(* ------------------------- TftpServer.stop ---------------------------- *)

\* stop(now): called from another thread at any time.
Stop(now) ==
    /\ IF now
       THEN /\ ~shutdown_immediately
            /\ shutdown_immediately' = TRUE
            /\ UNCHANGED shutdown_gracefully
       ELSE /\ ~shutdown_gracefully
            /\ shutdown_gracefully' = TRUE
            /\ UNCHANGED shutdown_immediately
    /\ UNCHANGED <<pc, sock, is_running, sessions, pending,
                   readyinput, buffer, deletion_list, ended, nextId, sent,
                   streak,
                   rcvd, last, lastEnded>>
    /\ UNCHANGED <<ctorVars, cliVars, guiVars>>

(* ------------------------- TftpServer.listen -------------------------- *)

\* Lines 62-75: create and bind the listening socket, set is_running.
Listen ==
    /\ pc \in {"idle", "returned"}
    /\ sock' = "open"
    /\ is_running' = TRUE
    /\ pc' = "top"
    /\ last' = "listen"
    /\ lastEnded' = {}
    /\ UNCHANGED <<shutdown_gracefully, shutdown_immediately, sessions,
                   pending, readyinput, buffer, deletion_list, ended,
                   nextId, sent, streak,
                   rcvd>>
    /\ UNCHANGED <<ctorVars, cliVars, guiVars>>

\* Lines 67-73: bind fails, socket.error is logged and raised again.
ListenBindError ==
    /\ pc \in {"idle", "returned"}
    /\ pc' = "raised"
    /\ last' = "binderr"
    /\ UNCHANGED <<sock, is_running, shutdown_gracefully,
                   shutdown_immediately, sessions, pending, readyinput,
                   buffer, deletion_list, ended, nextId, sent, streak,
                   rcvd, lastEnded>>
    /\ UNCHANGED <<ctorVars, cliVars, guiVars>>

\* EndAll with a fault: the immediate exit drops the sessions without end().
EndNone(cnt) == cnt

\* Lines 82-83: end() on every session of the map.
EndAll(cnt) ==
    [i \in SessionIds |-> IF i \in LiveIds THEN cnt[i] + 1 ELSE cnt[i]]

\* Line 84: self.sessions = {}.
SessionsAfterImmediate == <<>>

\* ExitImmediately with a fault: the graceful flag is tested first, and
\* the immediate exit is taken only when it is clear.
ExitImmediatelyUnlessGraceful ==
    shutdown_immediately /\ ~shutdown_gracefully

\* Line 79: `if self.shutdown_immediately', the first test of an
\* iteration.
ExitImmediately == shutdown_immediately

\* Lines 79-85: the immediate-shutdown test at the top of an iteration.
LoopTop ==
    /\ pc = "top"
    /\ IF ExitImmediately
       THEN /\ sock' = "closed"
            /\ ended' = EndAll(ended)
            /\ sessions' = SessionsAfterImmediate
            /\ pending' = [i \in DOMAIN pending |-> FALSE]
            /\ pc' = "tail"
            /\ last' = "top_exit"
            /\ lastEnded' = {<<sessions[k].id, sessions[k].state>> :
                                k \in DOMAIN sessions}
       ELSE /\ pc' = "top2"
            /\ last' = "top_pass"
            /\ UNCHANGED <<sock, ended, sessions, pending, lastEnded>>
    /\ UNCHANGED <<is_running, shutdown_gracefully,
                   shutdown_immediately, readyinput, buffer, deletion_list,
                   nextId, sent, streak,
                   rcvd>>
    /\ UNCHANGED <<ctorVars, cliVars, guiVars>>

\* CanExitGracefully with a fault: the test of the session map is left out.
CanExitGracefullyLeaky == shutdown_gracefully

\* Lines 87-88: `elif self.shutdown_gracefully: if not self.sessions'.
CanExitGracefully == shutdown_gracefully /\ DOMAIN sessions = {}

\* Lines 87-91: the graceful-shutdown test.
LoopGraceful ==
    /\ pc = "top2"
    /\ IF CanExitGracefully
       THEN /\ sock' = "closed"
            /\ pending' = [pending EXCEPT ![LISTEN] = FALSE]
            /\ pc' = "tail"
       ELSE /\ pc' = "select"
            /\ UNCHANGED <<sock, pending>>
    /\ last' = IF CanExitGracefully THEN "graceful_exit" ELSE "graceful_pass"
    /\ UNCHANGED <<is_running, shutdown_gracefully,
                   shutdown_immediately, sessions, readyinput, buffer,
                   deletion_list, ended, nextId, sent, streak,
                   rcvd, lastEnded>>
    /\ UNCHANGED <<ctorVars, cliVars, guiVars>>

\* Line 93: inputlist, the listening socket and then the session sockets
\* in the order of the map (the order in which they were created).
Ready == {i \in {LISTEN} \cup LiveIds : pending[i]}

RECURSIVE InOrder(_)
InOrder(S) ==
    IF S = {} THEN <<>>
    ELSE LET m == CHOOSE x \in S : \A y \in S : x <= y
         IN <<m>> \o InOrder(S \ {m})

\* Lines 93-95 and 104: select returns the sockets with a datagram waiting.
Select ==
    /\ pc = "select"
    /\ Ready # {}
    /\ readyinput' = InOrder(Ready)
    /\ deletion_list' = <<>>
    /\ streak' = 0
    /\ pc' = "dispatch"
    /\ last' = "select"
    /\ lastEnded' = {}
    /\ UNCHANGED <<sock, is_running, shutdown_gracefully,
                   shutdown_immediately, sessions, pending, buffer, ended,
                   nextId, sent,
                   rcvd>>
    /\ UNCHANGED <<ctorVars, cliVars, guiVars>>

\* Line 95: nothing arrives for `timeout' seconds; select returns no
\* socket.  Sessions are created with the same `timeout' (line 115), so
\* the deadline of every session has passed once more.  The loop then
\* goes through lines 104-151 with nothing to do: listen() calls no
\* timeout handler of a session, so the sessions stay as they are.
SelectTimeout ==
    /\ pc = "select"
    /\ Ready = {}
    /\ readyinput' = <<>>
    /\ deletion_list' = <<>>
    /\ streak' = IF streak <= retries THEN streak + 1 ELSE streak
    /\ pc' = "dispatch"
    /\ last' = "timeout"
    /\ lastEnded' = {}
    /\ UNCHANGED <<sock, is_running, shutdown_gracefully,
                   shutdown_immediately, sessions, pending, buffer, ended,
                   nextId, sent,
                   rcvd>>
    /\ UNCHANGED <<ctorVars, cliVars, guiVars>>

\* Lines 96-102: select raises.  select.error is OSError, which cannot be
\* indexed, so `err[0]' raises TypeError for every error; the `continue'
\* of line 99 is never reached and listen() is left by an exception, with
\* the sockets open and is_running set.
SelectError ==
    /\ pc = "select"
    /\ pc' = "raised"
    /\ last' = "selecterr"
    /\ UNCHANGED <<sock, is_running, shutdown_gracefully,
                   shutdown_immediately, sessions, pending, readyinput,
                   buffer, deletion_list, ended, nextId, sent, streak,
                   rcvd, lastEnded>>
    /\ UNCHANGED <<ctorVars, cliVars, guiVars>>


\* DiscardOnListen with a fault: the graceful flag is not tested.
DiscardNever == FALSE

\* Line 109: `if self.shutdown_gracefully', read after recvfrom.
DiscardOnListen == shutdown_gracefully

\* Lines 107-111: the listening socket is ready; read its datagram (any
\* of ListenDgrams) and drop it in graceful shutdown.
RecvListen ==
    /\ pc = "dispatch"
    /\ readyinput # <<>>
    /\ Head(readyinput) = LISTEN
    /\ pending' = [pending EXCEPT ![LISTEN] = FALSE]
    /\ IF DiscardOnListen
       THEN /\ readyinput' = Tail(readyinput)
            /\ UNCHANGED <<pc, buffer>>
       ELSE /\ \E d \in ListenDgrams : buffer' = d
            /\ pc' = "accept"
            /\ UNCHANGED readyinput
    /\ last' = IF DiscardOnListen THEN "discard" ELSE "recv"
    /\ UNCHANGED <<sock, is_running, shutdown_gracefully,
                   shutdown_immediately, sessions, deletion_list, ended,
                   nextId, sent,
                   streak,
                   rcvd, lastEnded>>
    /\ UNCHANGED <<ctorVars, cliVars, guiVars>>

\* Line 108: recvfrom on the listening socket raises (it is in no try
\* block); listen() is left by the exception.
RecvListenError ==
    /\ pc = "dispatch"
    /\ readyinput # <<>>
    /\ Head(readyinput) = LISTEN
    /\ pc' = "raised"
    /\ last' = "recverr"
    /\ UNCHANGED <<sock, is_running, shutdown_gracefully,
                   shutdown_immediately, sessions, pending, readyinput,
                   buffer, deletion_list, ended, nextId, sent, streak,
                   rcvd, lastEnded>>
    /\ UNCHANGED <<ctorVars, cliVars, guiVars>>

\* IsNewKey with a fault: a session is made for every datagram.
AlwaysNewKey(key) == TRUE

\* Line 114: `if key not in self.sessions'.
IsNewKey(key) == key \notin DOMAIN sessions

\* Lines 116-120: the key of a session whose start() raised TftpException
\* goes to the deletion list.
AfterStart(dl, key, raised) == IF raised THEN Append(dl, key) ELSE dl

\* Lines 113-123: a session for a key that has none; start() gets the
\* datagram.  A datagram of a key that has a session is dropped.
Accept ==
    /\ pc = "accept"
    /\ LET key == SessionKey(buffer.src[1], buffer.src[2])
       IN IF IsNewKey(key)
          THEN /\ nextId <= MaxSessions
               /\ LET r == Start(NewSession(nextId, buffer.src, buffer),
                                 buffer)
                  IN /\ sessions' = [k \in DOMAIN sessions \cup {key} |->
                                        IF k = key THEN r.sess
                                        ELSE sessions[k]]
                     /\ deletion_list' =
                            AfterStart(deletion_list, key, r.raised)
                     /\ sent' = r.out
                     /\ last' = IF r.raised THEN "startfail" ELSE "create"
               /\ nextId' = nextId + 1
          ELSE /\ last' = "duplicate"
               /\ UNCHANGED <<sessions, deletion_list, sent, nextId>>
    /\ buffer' = NoDgram
    /\ readyinput' = Tail(readyinput)
    /\ pc' = "dispatch"
    /\ UNCHANGED <<sock, is_running, shutdown_gracefully,
                   shutdown_immediately, pending, ended,
                   streak,
                   rcvd, lastEnded>>
    /\ UNCHANGED <<ctorVars, cliVars, guiVars>>

\* AfterCycle with a fault: only a raised TftpException lists the key.
AfterCycleRaisedOnly(dl, key, raised, s) ==
    IF raised THEN Append(dl, key) ELSE dl

\* AfterCycle with a fault: the key is listed after every cycle().
AfterCycleAlways(dl, key, raised, s) == Append(dl, key)

\* Lines 128-135: after cycle(), the key goes to the deletion list when
\* the session is done (state is None) or TftpException was raised.
AfterCycle(dl, key, raised, s) ==
    IF raised \/ s.state = "DONE" THEN Append(dl, key) ELSE dl

\* Lines 125-136: a session socket is ready; its session cycles on the
\* datagram read from it (any of SessionDgrams).
CycleSession ==
    /\ pc = "dispatch"
    /\ readyinput # <<>>
    /\ Head(readyinput) # LISTEN
    /\ LET i == Head(readyinput)
           key == KeyOfSock(i)
       IN \E d \in SessionDgrams(sessions[key]) :
            LET r == Cycle(sessions[key], d)
            IN /\ sessions' = [sessions EXCEPT ![key] = r.sess]
               /\ deletion_list' =
                      AfterCycle(deletion_list, key, r.raised, r.sess)
               /\ sent' = r.out
               /\ rcvd' = d
               /\ pending' = [pending EXCEPT ![i] = FALSE]
    /\ readyinput' = Tail(readyinput)
    /\ last' = "cycle"
    /\ UNCHANGED <<pc, sock, is_running, shutdown_gracefully,
                   shutdown_immediately, buffer, ended, nextId,
                   streak,
                   lastEnded>>
    /\ UNCHANGED <<ctorVars, cliVars, guiVars>>

\* Lines 140-151: end() and delete every listed session that is in the map.
DeleteSessions ==
    /\ pc = "dispatch"
    /\ readyinput = <<>>
    /\ LET gone == SeqToSet(deletion_list) \cap DOMAIN sessions
           ids == {sessions[k].id : k \in gone}
       IN /\ ended' = [i \in SessionIds |->
                          IF i \in ids THEN ended[i] + 1 ELSE ended[i]]
          /\ pending' = [i \in DOMAIN pending |->
                            IF i \in ids THEN FALSE ELSE pending[i]]
          /\ sessions' = Remove(sessions, gone)
          /\ lastEnded' = {<<sessions[k].id, sessions[k].state>> : k \in gone}
    /\ deletion_list' = <<>>
    /\ pc' = "top"
    /\ last' = "delete"
    /\ rcvd' = NoDgram
    /\ sent' = <<>>
    /\ UNCHANGED <<sock, is_running, shutdown_gracefully,
                   shutdown_immediately, readyinput, buffer, nextId, streak>>
    /\ UNCHANGED <<ctorVars, cliVars, guiVars>>

\* FlagAfterLoop with a fault: the flag is left as stop() set it.
FlagKept(flag) == flag

\* Line 155: `self.shutdown_gracefully = self.shutdown_immediately = False'.
FlagAfterLoop(flag) == FALSE

\* Lines 153-155: after the loop.
LoopExit ==
    /\ pc = "tail"
    /\ is_running' = FALSE
    /\ shutdown_gracefully' = FlagAfterLoop(shutdown_gracefully)
    /\ shutdown_immediately' = FlagAfterLoop(shutdown_immediately)
    /\ pc' = "returned"
    /\ last' = "exit"
    /\ UNCHANGED <<sock, sessions, pending, readyinput, buffer,
                   deletion_list, ended, nextId, sent,
                   streak,
                   rcvd, lastEnded>>
    /\ UNCHANGED <<ctorVars, cliVars, guiVars>>

(* ------------------------------ peers --------------------------------- *)

\* The server sees a datagram only through select, so its arrival is placed
\* in the wait of line 95; one that arrives while the loop is busy is seen
\* by the next select like one that arrives as that select starts.
\* Each recvfrom takes one datagram and the loop reads a socket once per
\* iteration, so `pending' only says whether a socket has one waiting; what
\* it holds is drawn when it is read (ListenDgrams, SessionDgrams).

\* A peer's datagram reaches the listening socket.
PeerSendListen ==
    /\ pc = "select"
    /\ nextId <= MaxSessions
    /\ sock = "open"
    /\ ~pending[LISTEN]
    /\ pending' = [pending EXCEPT ![LISTEN] = TRUE]
    /\ UNCHANGED <<pc, sock, is_running, shutdown_gracefully,
                   shutdown_immediately, sessions, readyinput, buffer,
                   deletion_list, ended, nextId, sent, streak,
                   rcvd, last, lastEnded>>
    /\ UNCHANGED <<ctorVars, cliVars, guiVars>>

\* A datagram reaches the socket of a session.
PeerSendSession ==
    /\ pc = "select"
    /\ \E k \in DOMAIN sessions :
         /\ ~Terminal(sessions[k])
         /\ ~pending[sessions[k].id]
         /\ pending' = [pending EXCEPT ![sessions[k].id] = TRUE]
    /\ UNCHANGED <<pc, sock, is_running, shutdown_gracefully,
                   shutdown_immediately, sessions, readyinput, buffer,
                   deletion_list, ended, nextId, sent, streak,
                   rcvd, last, lastEnded>>
    /\ UNCHANGED <<ctorVars, cliVars, guiVars>>

Next ==
    \/ \E now \in BOOLEAN : Stop(now)
    \/ Listen
    \/ ListenBindError
    \/ LoopTop
    \/ LoopGraceful
    \/ Select
    \/ SelectTimeout
    \/ SelectError
    \/ RecvListen
    \/ RecvListenError
    \/ Accept
    \/ CycleSession
    \/ DeleteSessions
    \/ LoopExit
    \/ PeerSendListen
    \/ PeerSendSession

Spec == Init /\ [][Next]_vars


\* The steps of the listen() thread short of socket errors.  The thread is
\* scheduled as long as it can run, and select returns after `timeout'
\* seconds at the latest; peers and stop() callers owe the server nothing.
LoopStep ==
    \/ LoopTop
    \/ LoopGraceful
    \/ Select
    \/ SelectTimeout
    \/ RecvListen
    \/ Accept
    \/ CycleSession
    \/ DeleteSessions
    \/ LoopExit

FairSpec == Spec /\ WF_vars(LoopStep)

(* ------------------- a transfer across the block wrap ----------------- *)

\* The reading session of a file of 2^16 full blocks (blocks 1 .. 65535,
\* then 0, then a zero-length block 1), two blocks before the wrap: it
\* has sent block 65534 and waits for the ACK of it, with two full blocks
\* and the short one still to send.
LongSession ==
    [id |-> 1, peer |-> <<"10.0.0.1", 2001>>, first |-> "RRQ",
     role |-> "read", state |-> "WAITING_ACK", blk |-> BlockModulus - 2,
     left |-> 2, lastShort |-> FALSE, wrote |-> 0, retry_count |-> 0,
     dupcount |-> 0, full |-> BlockModulus, shorts |-> 0]

\* listen() in its wait at line 95 with that one session in the map.
WrapInit ==
    /\ pc = "select"
    /\ sock = "open"
    /\ is_running = TRUE
    /\ shutdown_gracefully = FALSE
    /\ shutdown_immediately = FALSE
    /\ sessions = [k \in {SessionKey(LongSession.peer[1],
                                     LongSession.peer[2])} |-> LongSession]
    /\ pending = [i \in {LISTEN} \cup SessionIds |-> FALSE]
    /\ readyinput = <<>>
    /\ buffer = NoDgram
    /\ deletion_list = <<>>
    /\ ended = [i \in SessionIds |-> 0]
    /\ nextId = 2
    /\ sent = <<>>
    /\ streak = 0
    /\ rcvd = NoDgram
    /\ last = "delete"
    /\ lastEnded = {}
    /\ ctor = NoCall
    /\ opened = {}
    /\ clients = <<>>
    /\ dicts = [r \in {DEFAULT} |-> EmptyDict]
    /\ lastNew = NoCall
    /\ xfer = NoCall
    /\ writer = "none"
    /\ lastSize = NoCall
    /\ GuiInit

\* The dispatcher from the middle of that transfer on.
WrapSpec == WrapInit /\ [][Next]_vars

(* --------- TftpServer.__init__ and handle_write_request --------------- *)

\* What os.path.exists, os.path.isdir and os.access say of a root; a path
\* that does not exist is no directory and grants no access.
Roots ==
    {fs \in [exists : BOOLEAN, isdir : BOOLEAN, readable : BOOLEAN,
             writable : BOOLEAN] :
        ~fs.exists => (~fs.isdir /\ ~fs.readable /\ ~fs.writable)}

\* RootCheck with a fault: the test of os.access(root, R_OK) is left out.
RootCheckNoAccess(fs) ==
    IF fs.exists
    THEN IF ~fs.isdir THEN "TftpException" ELSE "server"
    ELSE "TftpException"

\* Lines 36-44: the tests of the root; what the constructor call yields.
RootCheck(fs) ==
    IF fs.exists
    THEN IF ~fs.isdir THEN "TftpException"
         ELSE IF ~fs.readable THEN "TftpException"
         ELSE "server"
    ELSE "TftpException"

\* Lines 41-42: logger.warning for a root that cannot be written; reached
\* only when no test before it raised.
RootWarning(fs) == RootCheck(fs) = "server" /\ ~fs.writable

\* TftpServer(tftproot) for a root with the attributes fs.
TftpServerInit ==
    /\ \E fs \in Roots :
         ctor' = [result |-> RootCheck(fs), root |-> fs,
                  warned |-> RootWarning(fs)]
    /\ UNCHANGED <<opened, srvVars, cliVars, guiVars>>

\* Lines 46-56: handle_write_request(address, filename) on a server that
\* was constructed.  open(filepath, 'wb') creates or truncates the file
\* when it succeeds; self.write_to_file is defined nowhere, so the body of
\* the `with' raises AttributeError after the file was opened, and that, like
\* an OSError of open, is caught and logged at line 55.
HandleWriteRequest ==
    /\ ctor.result = "server"
    /\ \E filename \in WriteNames, ok \in BOOLEAN :
         opened' = IF ok THEN opened \cup {Join(RootPath, filename)}
                   ELSE opened
    /\ UNCHANGED <<ctor, srvVars, cliVars, guiVars>>

ServerApiNext ==
    \/ TftpServerInit
    \/ HandleWriteRequest

\* The constructor and the helper, which touch none of listen()'s state.
ServerApiSpec == Init /\ [][ServerApiNext]_vars

(* ----------------------------- TftpClient ----------------------------- *)

\* from .TftpShared import *: the bounds of the blksize option.
MIN_BLKSIZE == 8
MAX_BLKSIZE == 65464

\* The variables that name a TftpClient in the caller's program.
ClientNames == {"a", "b"}

\* Values a caller can give the blksize option: Python ints around both
\* bounds, a str and a bool.
BlkValues ==
    {[type |-> "int", val |-> n] :
        n \in {MIN_BLKSIZE - 1, MIN_BLKSIZE, 512, MAX_BLKSIZE,
               MAX_BLKSIZE + 1}}
    \cup {[type |-> "str", val |-> 512], [type |-> "bool", val |-> 1]}

\* {'blksize': v}
BlkDict(v) == [n \in {"blksize"} |-> v]

\* The dicts a caller passes as options.
OptionDicts == {EmptyDict} \cup {BlkDict(v) : v \in BlkValues}

\* Line 32: tftpassert(int == type(size), ...) raises TftpException when
\* the condition is false.
IsInt(size) == size.type = "int"

\* BlksizeInvalid with a fault: the lower bound itself is refused.
BlksizeInvalidStrict(size) ==
    size.val <= MIN_BLKSIZE \/ size.val > MAX_BLKSIZE

\* Line 33: `size < MIN_BLKSIZE or size > MAX_BLKSIZE'.
BlksizeInvalid(size) == size.val < MIN_BLKSIZE \/ size.val > MAX_BLKSIZE

\* Lines 30-34: what the constructor yields for the dict in self.options.
OptionsCheck(o) ==
    IF "blksize" \in DOMAIN o
    THEN IF ~IsInt(o["blksize"]) THEN "TftpException"
         ELSE IF BlksizeInvalid(o["blksize"]) THEN "TftpException"
         ELSE "client"
    ELSE "client"

\* Lines 22-34: c = TftpClient(host) when `given' is FALSE, and
\* c = TftpClient(host, options=o) with a dict o the caller has just made
\* otherwise.  Without the argument, self.options is the one dict made
\* when the `def' of line 22 was executed.
TftpClientInit(c, given, o) ==
    /\ c \notin DOMAIN clients
    /\ LET ref == IF given THEN c ELSE DEFAULT
           d == IF given THEN o ELSE dicts[DEFAULT]
       IN /\ lastNew' = [result |-> OptionsCheck(d), name |-> c,
                         options |-> d, given |-> given]
          /\ IF OptionsCheck(d) = "client"
             THEN /\ clients' = [k \in DOMAIN clients \cup {c} |->
                                    IF k = c THEN [options |-> ref]
                                    ELSE clients[k]]
                  /\ dicts' = [r \in DOMAIN dicts \cup {ref} |->
                                  IF r = ref THEN d ELSE dicts[r]]
             ELSE UNCHANGED <<clients, dicts>>
    /\ UNCHANGED <<xfer, writer, lastSize, srvVars, ctorVars, guiVars>>

\* What is read through c.options.
OptionsOf(c) == dicts[clients[c].options]

\* c.options['blksize'] = v by the caller of client c.
SetOption(c, v) ==
    /\ c \in DOMAIN clients
    /\ dicts' = [dicts EXCEPT ![clients[c].options] = BlkDict(v)]
    /\ writer' = c
    /\ UNCHANGED <<clients, lastNew, xfer, lastSize, srvVars, ctorVars, guiVars>>

\* The blksize of a transfer without options (DEF_BLKSIZE).
DEF_BLKSIZE == 512

DataPkt(len) == [op |-> "DATA", len |-> len]
ErrorPkt == [op |-> "ERROR", len |-> 0]

\* What crosses the session of one transfer, in order: the DATA packets
\* (inbound in a download, outbound in an upload) and an ERROR packet of
\* the server.  A script that ends with neither a short DATA nor an ERROR
\* is followed by silence, so the session times out.  They are: a file
\* of five bytes, one of exactly one block, file not found, an error
\* after one block, no answer at all, and silence after one block.
Scripts ==
    { <<DataPkt(5)>>,
      <<DataPkt(DEF_BLKSIZE), DataPkt(0)>>,
      <<ErrorPkt>>,
      <<DataPkt(DEF_BLKSIZE), ErrorPkt>>,
      <<>>,
      <<DataPkt(DEF_BLKSIZE)>> }

\* The packethook argument: None, a function that returns, and one that
\* raises on every packet it is given.
Hooks == {"none", "quiet", "raising"}

HookRaises(hook) == hook = "raising"

\* AfterHook with a fault: an exception of the hook ends the transfer.
AfterHookPropagates(raised) == IF raised THEN "abort" ELSE "continue"

\* The session goes on after the hook has been called, whether or not it
\* raised.
AfterHook(raised) == "continue"

\* The session of a transfer from the packet at position i of the script
\* on: the hook is called with a copy of every DATA and ERROR packet, a
\* DATA payload is transferred, a short DATA ends the transfer in DONE,
\* and an ERROR, a timeout or an abort ends it in FAILED.
RECURSIVE RunContext(_, _, _, _)
RunContext(script, hook, i, acc) ==
    IF i > Len(script)
    THEN [acc EXCEPT !.state = "FAILED"]
    ELSE LET pkt == script[i]
             called == hook # "none"
             acc1 == [acc EXCEPT !.calls = IF called THEN @ + 1 ELSE @]
         IN IF called /\ AfterHook(HookRaises(hook)) = "abort"
            THEN [acc1 EXCEPT !.state = "FAILED"]
            ELSE IF pkt.op = "ERROR"
            THEN [acc1 EXCEPT !.state = "FAILED"]
            ELSE LET acc2 == [acc1 EXCEPT !.bytes = @ + pkt.len]
                 IN IF pkt.len < DEF_BLKSIZE
                    THEN [acc2 EXCEPT !.state = "DONE"]
                    ELSE RunContext(script, hook, i + 1, acc2)

\* context.start(): the whole transfer.
ContextStart(script, hook) ==
    RunContext(script, hook, 1, [state |-> "INIT", bytes |-> 0, calls |-> 0])

\* The record of one download()/upload() call.  start() returns when the
\* transfer is DONE and raises when it FAILED; the exception leaves the
\* method at the call of start(), so end() is called only after a return.
\* `disk' is the number of bytes a download wrote to a file on disk.
CallRecord(c, op, script, hook, output) ==
    LET r == ContextStart(script, hook)
        startRaises == r.state = "FAILED"
    IN [result |-> IF startRaises THEN "raised" ELSE "returned",
        client |-> c, op |-> op, started |-> TRUE, ended |-> ~startRaises,
        script |-> script, hook |-> hook, output |-> output,
        state |-> r.state, bytes |-> r.bytes, calls |-> r.calls,
        disk |-> IF op = "download" /\ output = "file" THEN r.bytes ELSE 0]

\* Lines 54-65 (download) and 108-119 (upload): the context is made with
\* the caller's packethook, then self.context.start() and
\* self.context.end() are called one after the other with no try block
\* around them (get_file_size, lines 87-93, catches what download()
\* raises).  The caller names a file on disk.
Transfer(c, op, script, hook) ==
    /\ c \in DOMAIN clients
    /\ xfer' = CallRecord(c, op, script, hook, "file")
    /\ UNCHANGED <<clients, dicts, lastNew, writer, lastSize, srvVars,
                   ctorVars, guiVars>>

\* SizeResult with a fault: the byte count of the buffer is returned
\* whether or not download() raised.
SizeResultPartial(raised, nbytes) == nbytes

\* Lines 83-93: `return output.getbuffer().nbytes' after download() has
\* returned, and `return -1' in the handler of `except Exception'.
SizeResult(raised, nbytes) == IF raised THEN -1 ELSE nbytes

\* Lines 78-93: get_file_size(filename): download(filename, output) with
\* output an io.BytesIO and no packethook, inside try/except Exception.
GetFileSize(c, script) ==
    /\ c \in DOMAIN clients
    /\ LET call == CallRecord(c, "download", script, "none", "memory")
       IN /\ xfer' = call
          /\ lastSize' = [result |-> "returned",
                          value |-> SizeResult(call.result = "raised",
                                               call.bytes),
                          client |-> c, script |-> script,
                          state |-> call.state, nbytes |-> call.bytes,
                          disk |-> call.disk]
    /\ UNCHANGED <<clients, dicts, lastNew, writer, srvVars, ctorVars, guiVars>>

ClientNext ==
    \/ \E c \in ClientNames, given \in BOOLEAN, o \in OptionDicts :
         TftpClientInit(c, given, o)
    \/ \E c \in ClientNames, v \in BlkValues : SetOption(c, v)

\* The callers that construct clients and set their options; nothing
\* here touches a server object.
ClientSpec == Init /\ [][ClientNext]_vars

\* Both clients were constructed without an options argument.
TransferInit ==
    /\ SrvInit
    /\ CtorInit
    /\ clients = [c \in ClientNames |-> [options |-> DEFAULT]]
    /\ dicts = [r \in {DEFAULT} |-> EmptyDict]
    /\ lastNew = [result |-> "client", name |-> "b", options |-> EmptyDict,
                  given |-> FALSE]
    /\ xfer = NoCall
    /\ writer = "none"
    /\ lastSize = NoCall
    /\ GuiInit

TransferNext ==
    \/ \E c \in ClientNames, op \in {"download", "upload"},
          script \in Scripts, hook \in Hooks : Transfer(c, op, script, hook)
    \/ \E c \in ClientNames, script \in Scripts : GetFileSize(c, script)

\* The callers that transfer files with clients they have constructed.
TransferSpec == TransferInit /\ [][TransferNext]_vars

(* ------------------- the window (TFTP_GUI_Server.py) ------------------ *)

\* Ports the user can have in the port box when Start Server is clicked.
Ports == {69, 6969}

\* A listen() thread of the window: its server has the graceful flag, a
\* number of sessions in its map, and the port it was started for.
\* state: "spawned" (thread started, socket not bound), "loop" (bound, in
\* the while loop), "returned" (loop left, socket closed) or "raised"
\* (bind raised socket.error).
NewLoop(port) ==
    [state |-> "spawned", graceful |-> FALSE, nsessions |-> 0,
     port |-> port]

\* The threads whose listen() has not ended.
Alive == {i \in DOMAIN loops : loops[i].state \in {"spawned", "loop"}}

\* The threads that hold a listening socket bound to the port.
Bound(port) ==
    {i \in DOMAIN loops : loops[i].state = "loop" /\ loops[i].port = port}

\* Lines 98-110: start_server, the slot of the Start Server button: with
\* no server, a TftpServer is constructed for the current directory, a
\* daemon thread is started on its listen() and the label is set.  The
\* slot neither joins nor looks at threads started before.
GuiStartServer ==
    /\ gui.server = NoServer
    /\ Len(loops) < MaxServers
    /\ \E port \in Ports : loops' = Append(loops, NewLoop(port))
    /\ gui' = [server |-> Len(loops) + 1, label |-> "Running"]
    /\ UNCHANGED <<srvVars, ctorVars, cliVars>>

\* Lines 112-119: stop_server, the slot of the Stop Server button:
\* self.server.stop() sets the graceful flag, then the window forgets the
\* server and sets the label; it does not wait for listen() to return.
GuiStopServer ==
    /\ gui.server # NoServer
    /\ loops' = [loops EXCEPT ![gui.server].graceful = TRUE]
    /\ gui' = [server |-> NoServer, label |-> "Stopped"]
    /\ UNCHANGED <<srvVars, ctorVars, cliVars>>

\* TFTPServer.py lines 67-75 in thread i: bind raises socket.error when
\* another socket is bound to the port, and is_running is set otherwise.
ThreadBind(i) ==
    /\ i \in DOMAIN loops
    /\ loops[i].state = "spawned"
    /\ loops' = [loops EXCEPT ![i].state =
                     IF Bound(loops[i].port) # {} THEN "raised" ELSE "loop"]
    /\ UNCHANGED <<gui, srvVars, ctorVars, cliVars>>

\* TFTPServer.py lines 87-91 and 153-155 in thread i: the loop is left in
\* graceful shutdown once the map is empty; the socket is closed and the
\* flags are reset.
ThreadExit(i) ==
    /\ i \in DOMAIN loops
    /\ loops[i].state = "loop"
    /\ loops[i].graceful
    /\ loops[i].nsessions = 0
    /\ loops' = [loops EXCEPT ![i].state = "returned",
                               ![i].graceful = FALSE]
    /\ UNCHANGED <<gui, srvVars, ctorVars, cliVars>>

\* TFTPServer.py lines 107-117 in thread i: a request makes a session
\* unless the graceful flag is set.
ThreadAccept(i) ==
    /\ i \in DOMAIN loops
    /\ loops[i].state = "loop"
    /\ ~loops[i].graceful
    /\ loops[i].nsessions = 0
    /\ loops' = [loops EXCEPT ![i].nsessions = 1]
    /\ UNCHANGED <<gui, srvVars, ctorVars, cliVars>>

\* TFTPServer.py lines 125-151 in thread i: a session ends and is deleted.
ThreadSessionEnd(i) ==
    /\ i \in DOMAIN loops
    /\ loops[i].state = "loop"
    /\ loops[i].nsessions > 0
    /\ loops' = [loops EXCEPT ![i].nsessions = @ - 1]
    /\ UNCHANGED <<gui, srvVars, ctorVars, cliVars>>

GuiNext ==
    \/ GuiStartServer
    \/ GuiStopServer
    \/ \E i \in 1..MaxServers : ThreadBind(i)
    \/ \E i \in 1..MaxServers : ThreadExit(i)
    \/ \E i \in 1..MaxServers : ThreadAccept(i)
    \/ \E i \in 1..MaxServers : ThreadSessionEnd(i)

\* The clicks on the two buttons and the threads they leave behind.
GuiSpec == Init /\ [][GuiNext]_vars

(* ------------------------------ claims -------------------------------- *)

AtBoundary == pc \in {"top", "top2", "select"}

\* C1: when only stop(now=False) was signalled, the loop is left (listening
\* socket closed, break) only with an empty session map.
C1_GracefulExitNoLeak ==
    (pc = "tail" /\ ~shutdown_immediately)
        => (DOMAIN sessions = {} /\ sock = "closed")

\* C1 witness: a graceful exit after sessions had been served.
C1_Witness ==
    /\ pc = "tail"
    /\ last = "graceful_exit"
    /\ shutdown_gracefully /\ ~shutdown_immediately
    /\ nextId > 1

\* C2 as claimed: from the moment the graceful flag is set, no step of the
\* loop adds a key to the session map.
C2_NoNewSessionAfterStop ==
    [][(shutdown_gracefully /\ InLoop)
          => DOMAIN sessions' \subseteq DOMAIN sessions]_vars

\* C2 as amended: with the flag set, a datagram read from the listening
\* socket is discarded (the loop goes on with the next ready socket, the
\* map untouched), and a key is added only by the one datagram that had
\* passed the test of line 109 before stop() set the flag.
C2_DiscardOnceFlagRead ==
    /\ [][(shutdown_gracefully /\ pc = "dispatch" /\ readyinput # <<>>
            /\ Head(readyinput) = LISTEN /\ readyinput' # readyinput)
          => (pc' = "dispatch" /\ sessions' = sessions
              /\ buffer' = NoDgram /\ ~pending'[LISTEN])]_vars
    /\ [][(shutdown_gracefully /\ InLoop /\ pc # "accept")
          => DOMAIN sessions' \subseteq DOMAIN sessions]_vars
    /\ [][(shutdown_gracefully /\ pc # "accept") => pc' # "accept"]_vars

\* C2 witness: a datagram was read and discarded while a session is in
\* flight.
C2_Witness ==
    /\ last = "discard"
    /\ shutdown_gracefully
    /\ DOMAIN sessions # {}

\* C3: a graceful stop with sessions in flight leads to the end of the
\* loop, whatever the peers do.
C3_GracefulTerminates ==
    (InLoop /\ shutdown_gracefully /\ DOMAIN sessions # {}) ~> ~InLoop

\* C4: at an iteration boundary after select timed out, every session has
\* resent its last packet once for each deadline that passed, and none has
\* outlived `retries' of them.
C4_TimeoutDriver ==
    (pc = "top" /\ streak > 0)
        => \A k \in DOMAIN sessions :
              /\ sessions[k].retry_count = streak
              /\ streak <= retries

\* C5: at an iteration boundary with the immediate flag set the loop is
\* left, whatever sessions are in flight: the listening socket is closed,
\* every session of the map got end(), and the map is empty.
C5_ImmediateExit ==
    [][(pc = "top" /\ shutdown_immediately /\ pc' # pc)
          => /\ pc' = "tail"
             /\ sock' = "closed"
             /\ DOMAIN sessions' = {}
             /\ \A k \in DOMAIN sessions :
                   ended'[sessions[k].id] = ended[sessions[k].id] + 1]_vars

\* C5 witness: the loop was left by the immediate path with two sessions
\* in flight.
C5_Witness ==
    /\ pc = "tail"
    /\ last = "top_exit"
    /\ Cardinality(lastEnded) = 2
    /\ \A e \in lastEnded : ended[e[1]] = 1 /\ e[2] \notin {"DONE", "FAILED"}

\* C6: no terminal session is in the map at an iteration boundary (before
\* the next select), and end() is called exactly once on every session
\* that left the map and never on one that is in it.
C6_TerminalDestroyedOnce ==
    /\ AtBoundary => \A k \in DOMAIN sessions : ~Terminal(sessions[k])
    /\ \A i \in SessionIds :
          /\ i \in LiveIds => ended[i] = 0
          /\ (i < nextId /\ i \notin LiveIds) => ended[i] = 1
          /\ i >= nextId => ended[i] = 0

\* C6 witness: one iteration destroyed a session that was DONE and one
\* that was FAILED.
C6_Witness ==
    /\ pc = "top"
    /\ last = "delete"
    /\ \E a, b \in lastEnded :
          /\ a[2] = "DONE" /\ b[2] = "FAILED"
          /\ ended[a[1]] = 1 /\ ended[b[1]] = 1
    /\ DOMAIN sessions = {}

\* C7: the map holds a session under the key of its own peer only (one
\* session for an endpoint), and a datagram on the listening socket from
\* an endpoint that has a session creates, replaces and feeds nothing.
C7_OneSessionPerEndpoint ==
    /\ [](\A k \in DOMAIN sessions :
             k = SessionKey(sessions[k].peer[1], sessions[k].peer[2]))
    /\ [](\A j, k \in DOMAIN sessions :
             sessions[j].id = sessions[k].id => j = k)
    /\ [][(pc = "accept" /\ pc' # pc
            /\ SessionKey(buffer.src[1], buffer.src[2]) \in DOMAIN sessions)
          => (sessions' = sessions /\ nextId' = nextId /\ sent' = sent
              /\ deletion_list' = deletion_list /\ ended' = ended)]_vars

\* C7 witness: a datagram from an endpoint with a session in progress was
\* dropped.
C7_Witness ==
    /\ last = "duplicate"
    /\ \E k \in DOMAIN sessions : sessions[k].state = "WAITING_ACK"

\* C8: a datagram on the listening socket that is no RRQ or WRQ is
\* answered with ERROR(4), and no session made for it stays in the map.
C8_NonRequestAnswered ==
    [][(pc = "accept" /\ pc' # pc /\ buffer.op \notin RequestOps)
          => /\ sent' = <<Pkt(buffer.src, "ERROR", 4)>>
             /\ \A k \in DOMAIN sessions' \ DOMAIN sessions :
                   k \in SeqToSet(deletion_list')]_vars

\* C9: a datagram read on a session's socket from another endpoint than
\* the session's peer is answered with one ERROR(5) to that endpoint; the
\* session is unchanged and is not listed for deletion.
C9_TidSticky ==
    [][(pc = "dispatch" /\ readyinput # <<>> /\ Head(readyinput) # LISTEN
            /\ readyinput' # readyinput
            /\ rcvd'.src # sessions[KeyOfSock(Head(readyinput))].peer)
          => /\ sent' = <<Pkt(rcvd'.src, "ERROR", 5)>>
             /\ sessions' = sessions
             /\ deletion_list' = deletion_list
             /\ ended' = ended]_vars

\* C9 witness: at the end of an iteration a stray datagram was answered
\* with ERROR(5) and the session it reached is still in the map, not
\* listed for deletion.
C9_Witness ==
    /\ pc = "dispatch" /\ readyinput = <<>> /\ last = "cycle"
    /\ deletion_list = <<>>
    /\ sent = <<Pkt(rcvd.src, "ERROR", 5)>>
    /\ \E k \in DOMAIN sessions :
          /\ sessions[k].peer # rcvd.src
          /\ sessions[k].state \in {"WAITING_ACK", "RECEIVING_DATA"}

\* C10: listen() is never left by an exception raised while it waits on
\* or reads from the sockets.
C10_NoErrorUnwinds ==
    ~(pc = "raised" /\ last \in {"selecterr", "recverr"})

\* C11: no operation of the server opens, creates or truncates a file whose
\* canonical path lies outside the root, handle_write_request included.
C11_PathSafety ==
    \A p \in opened : HasPrefix(Canonical(p), RootPath)

\* C12: every download() or upload() call that has come back to its caller,
\* by a return or by an exception, has called end() on its context.
C12_EndAlwaysCalled ==
    xfer.result # "none" => xfer.ended

\* C13: what one client shows as its options changes only in a step in
\* which the options were written through that very client.
C13_NoSharedOptions ==
    [][\A c \in DOMAIN clients :
          OptionsOf(c)' # OptionsOf(c) => writer' = c]_vars

\* C14: a TftpClient constructor call whose options hold blksize yields a
\* client exactly when the value is an int from 8 to 65464; otherwise it
\* raises TftpException and no client comes to exist under that name.
C14_BlksizeRange ==
    lastNew.result # "none" =>
        /\ "blksize" \in DOMAIN lastNew.options =>
              LET size == lastNew.options["blksize"]
              IN lastNew.result = "client" <=>
                     (size.type = "int" /\ size.val >= 8
                                       /\ size.val <= 65464)
        /\ "blksize" \notin DOMAIN lastNew.options =>
              lastNew.result = "client"
        /\ lastNew.result \in {"client", "TftpException"}
        /\ lastNew.result = "TftpException" =>
              lastNew.name \notin DOMAIN clients
        /\ lastNew.result = "client" => lastNew.name \in DOMAIN clients

\* Both ends of the range were accepted and refused: blksize 8 yielded the
\* client "a", and 65465 was refused for "b".
C14_Witness ==
    /\ "a" \in DOMAIN clients
    /\ clients["a"].options = "a"
    /\ OptionsOf("a") = BlkDict([type |-> "int", val |-> 8])
    /\ lastNew.result = "TftpException"
    /\ lastNew.name = "b"
    /\ lastNew.options = BlkDict([type |-> "int", val |-> 65465])

\* C15: TftpServer(tftproot) yields a server exactly when the root exists,
\* is a directory and is readable; when it does not exist, is no directory
\* or is not readable the call raises TftpException and yields no server;
\* a readable root that is not writable is accepted with a warning only.
C15_RootValidated ==
    ctor.result # "none" =>
        /\ ctor.result = "server" <=>
               (ctor.root.exists /\ ctor.root.isdir /\ ctor.root.readable)
        /\ ctor.result # "server" => ctor.result = "TftpException"
        /\ (ctor.root.exists /\ ctor.root.isdir /\ ctor.root.readable
              /\ ~ctor.root.writable) =>
               (ctor.result = "server" /\ ctor.warned)
        /\ ctor.warned => ctor.result = "server"

\* A root that is a readable directory but not writable was accepted, with
\* the warning.
C15_Witness ==
    /\ ctor.result = "server"
    /\ ctor.warned
    /\ ctor.root = [exists |-> TRUE, isdir |-> TRUE, readable |-> TRUE,
                    writable |-> FALSE]

\* The step in which the session behind the ready socket cycles.
IsCycleStep ==
    /\ pc = "dispatch"
    /\ readyinput # <<>>
    /\ Head(readyinput) # LISTEN
    /\ readyinput' = Tail(readyinput)

\* C16: when a reading session that waits for ACK(n) gets ACK(n-1) (the
\* block before n modulo 2^16) from its peer, nothing is sent, the session
\* stays in the map unlisted and as it was but for its duplicate counter,
\* which grows by one; and no cycle of a reading session sends the DATA
\* block it already waits on.
C16_NoSorcerersApprentice ==
    [][IsCycleStep =>
         LET key == KeyOfSock(Head(readyinput))
             s == sessions[key]
         IN s.role = "read" =>
              /\ \A i \in 1..Len(sent') :
                    sent'[i].op = "DATA" => sent'[i].arg # s.blk
              /\ (/\ s.state = "WAITING_ACK"
                  /\ rcvd'.src = s.peer
                  /\ rcvd'.op = "ACK"
                  /\ rcvd'.blk = PrevBlock(s.blk)) =>
                    /\ sent' = <<>>
                    /\ key \in DOMAIN sessions'
                    /\ sessions'[key] = [s EXCEPT !.dupcount = s.dupcount + 1]
                    /\ deletion_list' = deletion_list]_vars

\* A reading session has just taken a duplicate ACK of the block before
\* the one it waits on.
C16_Witness ==
    /\ last = "cycle"
    /\ rcvd.op = "ACK"
    /\ sent = <<>>
    /\ \E k \in DOMAIN sessions :
         /\ sessions[k].role = "read"
         /\ sessions[k].state = "WAITING_ACK"
         /\ sessions[k].dupcount = 1
         /\ rcvd.src = sessions[k].peer
         /\ rcvd.blk = PrevBlock(sessions[k].blk)
         /\ k \notin SeqToSet(deletion_list)

C18_FinalBlockRule ==
    /\ [](\A k \in DOMAIN sessions :
            LET s == sessions[k]
            IN /\ s.shorts <= 1
               /\ s.state = "DONE" => s.shorts = 1
               /\ (s.role = "write" /\ s.shorts = 1) => s.state = "DONE"
               /\ (s.role = "read" /\ s.state = "DONE") =>
                     (s.lastShort /\ s.blk = s.full + 1)
               /\ (s.role = "read" /\ s.shorts = 1) => s.lastShort)
    /\ [][IsCycleStep =>
            LET key == KeyOfSock(Head(readyinput))
                s == sessions[key]
                n == sessions'[key]
                ackOfShort == /\ s.role = "read"
                              /\ s.state = "WAITING_ACK"
                              /\ s.lastShort
                              /\ rcvd'.src = s.peer
                              /\ rcvd'.op = "ACK"
                              /\ rcvd'.blk = s.blk
                expected == /\ s.role = "write"
                            /\ s.state = "RECEIVING_DATA"
                            /\ rcvd'.src = s.peer
                            /\ rcvd'.op = "DATA"
                            /\ rcvd'.blk = NextBlock(s.blk)
            IN /\ key \in DOMAIN sessions'
               /\ (s.state # "DONE" /\ n.state = "DONE") <=>
                     (ackOfShort \/ (expected /\ rcvd'.short))
               /\ (ackOfShort \/ (expected /\ rcvd'.short)) =>
                     key \in SeqToSet(deletion_list')
               /\ (expected /\ ~rcvd'.short) =>
                     /\ n.state = "RECEIVING_DATA"
                     /\ n.shorts = 0
                     /\ deletion_list' = deletion_list]_vars

\* The reading session of the file of one full block is DONE and listed
\* for deletion: the ACK of its second, zero-length block has just come.
C18_Witness ==
    /\ last = "cycle"
    /\ rcvd.op = "ACK"
    /\ rcvd.blk = 2
    /\ \E k \in SeqToSet(deletion_list) \cap DOMAIN sessions :
         /\ sessions[k].role = "read"
         /\ sessions[k].state = "DONE"
         /\ sessions[k].full = 1
         /\ sessions[k].blk = 2
         /\ sessions[k].shorts = 1
         /\ rcvd.src = sessions[k].peer

C20_IsRunningTracksLoop ==
    /\ InLoop => is_running
    /\ is_running => sock # "none"
    /\ pc \in {"idle", "returned", "raised"} => ~is_running

C22_GetFileSizeNeverRaises ==
    lastSize.result # "none" =>
        /\ lastSize.result = "returned"
        /\ lastSize.state \in {"DONE", "FAILED"}
        /\ lastSize.state = "DONE" =>
              (lastSize.value = lastSize.nbytes /\ lastSize.value >= 0)
        /\ lastSize.state = "FAILED" => lastSize.value = -1
        /\ lastSize.script \in {<<>>, <<ErrorPkt>>} => lastSize.value = -1
        /\ lastSize.disk = 0

\* get_file_size has returned -1 for a download that failed by a timeout
\* after one block of 512 bytes had arrived.
C22_Witness ==
    /\ lastSize.result = "returned"
    /\ lastSize.script = <<DataPkt(512)>>
    /\ lastSize.state = "FAILED"
    /\ lastSize.nbytes = 512
    /\ lastSize.value = -1
    /\ xfer.output = "memory"

\* C23: when both shutdown flags are set at the top of an iteration, in
\* whichever order stop() set them, the step of the loop from there is the
\* immediate exit: the listening socket is closed, end() is called once
\* on every session of the map, and the map is emptied, sessions or not.
C23_ImmediatePrecedence ==
    [][(/\ pc = "top"
        /\ pc' # "top"
        /\ shutdown_immediately
        /\ shutdown_gracefully) =>
          /\ pc' = "tail"
          /\ last' = "top_exit"
          /\ sock' = "closed"
          /\ sessions' = <<>>
          /\ \A i \in SessionIds :
                ended'[i] = IF i \in LiveIds THEN ended[i] + 1
                            ELSE ended[i]]_vars

\* The loop has left by the immediate path with both flags set and a
\* session, not yet terminal, in the map.
C23_Witness ==
    /\ pc = "tail"
    /\ last = "top_exit"
    /\ shutdown_immediately
    /\ shutdown_gracefully
    /\ \E e \in lastEnded : e[2] \notin {"DONE", "FAILED"}
    /\ sessions = <<>>

\* C24 as claimed: whenever listen() has returned, both shutdown flags
\* are false, is_running is clear and the session map is empty, so that
\* the next listen() does not find a flag set.
C24_ReturnedMeansReset ==
    pc = "returned" =>
        /\ ~shutdown_gracefully
        /\ ~shutdown_immediately
        /\ ~is_running
        /\ sessions = <<>>

\* C24 amended: the return of listen() leaves both flags false,
\* is_running clear, the map empty and the socket closed, whatever stop()
\* calls were made during the run; a listen() that starts with both flags
\* false is in its loop with the socket bound; the loop is left only at a
\* test that finds its flag set; and a flag is set only by a step of
\* stop(), which changes nothing else.  So a run is ended only by a
\* stop() made after the return of the one before it.
C24_RestartAfterReset ==
    [][/\ (pc = "tail" /\ pc' = "returned") =>
            /\ ~shutdown_gracefully'
            /\ ~shutdown_immediately'
            /\ ~is_running'
            /\ sessions' = <<>>
            /\ sock' = "closed"
       /\ (/\ pc = "returned" /\ pc' = "top"
           /\ ~shutdown_gracefully /\ ~shutdown_immediately) =>
            /\ is_running'
            /\ sock' = "open"
            /\ ~shutdown_gracefully'
            /\ ~shutdown_immediately'
            /\ sessions' = <<>>
       /\ (pc = "top" /\ pc' = "tail") => shutdown_immediately
       /\ (pc = "top2" /\ pc' = "tail") => shutdown_gracefully
       /\ (\/ shutdown_gracefully' /\ ~shutdown_gracefully
           \/ shutdown_immediately' /\ ~shutdown_immediately) =>
            /\ pc' = pc
            /\ sessions' = sessions
            /\ sock' = sock
            /\ is_running' = is_running]_vars

\* listen() was called again on a server whose earlier run had served a
\* session and had been stopped: it is at the top of its first iteration
\* with both flags false.
C24_Witness ==
    /\ pc = "top"
    /\ last = "listen"
    /\ ended[1] = 1
    /\ nextId = 2
    /\ is_running
    /\ sock = "open"
    /\ ~shutdown_gracefully
    /\ ~shutdown_immediately
    /\ sessions = <<>>

\* C25: at most one listen() thread started by the window is alive at a
\* time, and while the label reads "Running" the thread of the window's
\* server is alive and no other thread holds a socket bound to its port.
C25_OneLoopAlive ==
    /\ Cardinality(Alive) <= 1
    /\ gui.label = "Running" =>
          /\ gui.server \in Alive
          /\ Bound(loops[gui.server].port) \subseteq {gui.server}

=============================================================================
